---- MODULE Spec2Model ----
(***************************************************************************)
(* The command console of src/agent-app/src/components/CommandAgent.tsx:   *)
(* the rule-based interpreter interpretCommand and the React component     *)
(* CommandAgent that feeds it the submitted text.                          *)
(*                                                                         *)
(* A JavaScript string the interpreter parses is a sequence of             *)
(* one-character strings, so that trim, toLowerCase, startsWith, includes, *)
(* indexOf, slice, replace, split and parseInt are computed character by   *)
(* character as the built-ins compute them.  A response is a TLA+ string.  *)
(***************************************************************************)
EXTENDS Integers, Sequences, FiniteSets, TLC

(* ------------------------------ bounds -------------------------------- *)

\* The number of interpretCommand calls a behaviour of Spec makes.
MaxCalls == 3

\* The number of entries the transcript grows to in a behaviour of SpecUI.
MaxLog == 4

(* ------------------- JavaScript string built-ins ---------------------- *)

\* The white space String.prototype.trim strips (the two characters the
\* inputs of this model use).
WhiteSpace == {" ", "\t"}

UpperCase == <<"A", "B", "C", "D", "E", "F", "G", "H", "I", "J", "K", "L", "M",
               "N", "O", "P", "Q", "R", "S", "T", "U", "V", "W", "X", "Y", "Z">>

LowerCase == <<"a", "b", "c", "d", "e", "f", "g", "h", "i", "j", "k", "l", "m",
               "n", "o", "p", "q", "r", "s", "t", "u", "v", "w", "x", "y", "z">>

Digits == <<"0", "1", "2", "3", "4", "5", "6", "7", "8", "9">>

toLowerChar(c) ==
    IF \E i \in 1..Len(UpperCase) : UpperCase[i] = c
    THEN LowerCase[CHOOSE i \in 1..Len(UpperCase) : UpperCase[i] = c]
    ELSE c

\* String.prototype.toLowerCase
toLowerCase(s) == [i \in 1..Len(s) |-> toLowerChar(s[i])]

RECURSIVE trimStart(_)
trimStart(s) ==
    IF s # <<>> /\ Head(s) \in WhiteSpace THEN trimStart(Tail(s)) ELSE s

RECURSIVE trimEnd(_)
trimEnd(s) ==
    IF s # <<>> /\ s[Len(s)] \in WhiteSpace
    THEN trimEnd(SubSeq(s, 1, Len(s) - 1))
    ELSE s

\* String.prototype.trim
trim(s) == trimEnd(trimStart(s))

\* String.prototype.startsWith
startsWith(s, prefix) ==
    Len(prefix) <= Len(s) /\ SubSeq(s, 1, Len(prefix)) = prefix

\* Whether pattern occurs in s at the 0-based index i.
occursAt(s, pattern, i) ==
    i + Len(pattern) <= Len(s) /\ SubSeq(s, i + 1, i + Len(pattern)) = pattern

\* String.prototype.includes
includes(s, pattern) == \E i \in 0..Len(s) : occursAt(s, pattern, i)

\* String.prototype.indexOf: the 0-based index of the first occurrence, or -1.
indexOf(s, pattern) ==
    IF includes(s, pattern)
    THEN CHOOSE i \in 0..Len(s) :
            /\ occursAt(s, pattern, i)
            /\ \A j \in 0..(i - 1) : ~occursAt(s, pattern, j)
    ELSE -1

\* String.prototype.slice(start) for 0 <= start.
slice(s, start) == SubSeq(s, start + 1, Len(s))

\* String.prototype.replace(pattern, ""): the first occurrence is removed.
removeFirst(s, pattern) ==
    LET i == indexOf(s, pattern)
    IN  IF i = -1 THEN s
        ELSE SubSeq(s, 1, i) \o SubSeq(s, i + Len(pattern) + 1, Len(s))

\* String.prototype.split(","): the pieces between the commas.
RECURSIVE split(_)
split(s) ==
    LET i == indexOf(s, <<",">>)
    IN  IF i = -1 THEN <<s>>
        ELSE <<SubSeq(s, 1, i)>> \o split(slice(s, i + 1))

isDigit(c) == \E d \in 1..Len(Digits) : Digits[d] = c

digitValue(c) == (CHOOSE d \in 1..Len(Digits) : Digits[d] = c) - 1

\* The longest prefix of s made of decimal digits.
RECURSIVE digitPrefix(_)
digitPrefix(s) ==
    IF s # <<>> /\ isDigit(Head(s)) THEN <<Head(s)>> \o digitPrefix(Tail(s)) ELSE <<>>

RECURSIVE decimalValue(_)
decimalValue(ds) ==
    IF ds = <<>> THEN 0
    ELSE 10 * decimalValue(SubSeq(ds, 1, Len(ds) - 1)) + digitValue(ds[Len(ds)])

\* Number.parseInt(s, 10): leading white space is skipped, a sign is read,
\* then the longest run of digits; what follows the digits is ignored; with
\* no digit the result is NaN.
parseInt(s) ==
    LET t      == trimStart(s)
        signed == t # <<>> /\ Head(t) \in {"+", "-"}
        body   == IF signed THEN Tail(t) ELSE t
        ds     == digitPrefix(body)
    IN  IF ds = <<>> THEN [isNaN |-> TRUE, value |-> 0]
        ELSE [isNaN |-> FALSE,
              value |-> IF signed /\ Head(t) = "-"
                        THEN 0 - decimalValue(ds) ELSE decimalValue(ds)]

\* The characters of s as one string, for the template literals.
RECURSIVE text(_)
text(s) == IF s = <<>> THEN "" ELSE Head(s) \o text(Tail(s))

(* --------------------------- the agent -------------------------------- *)

GRID_SIZE == 7

headingOrder == <<"north", "east", "south", "west">>

\* Array.prototype.indexOf on headingOrder, 0-based.
headingIndex(h) == (CHOOSE i \in 1..Len(headingOrder) : headingOrder[i] = h) - 1

\* nextHeading without the "+ headingOrder.length" wrap: the index stops at
\* the ends of headingOrder.
nextHeading_NoWrap(current, direction) ==
    LET index     == headingIndex(current)
        offset    == IF direction = "left" THEN -1 ELSE 1
        nextIndex == index + offset
    IN  headingOrder[(IF nextIndex < 0 THEN 0
                      ELSE IF nextIndex > Len(headingOrder) - 1 THEN Len(headingOrder) - 1
                      ELSE nextIndex) + 1]

nextHeading(current, direction) ==
    LET index     == headingIndex(current)
        offset    == IF direction = "left" THEN -1 ELSE 1
        nextIndex == (index + offset + Len(headingOrder)) % Len(headingOrder)
    IN  headingOrder[nextIndex + 1]

Min(a, b) == IF a <= b THEN a ELSE b

Max(a, b) == IF a >= b THEN a ELSE b

\* moveForward without Math.min and Math.max: a step off the grid.
moveForward_Unclamped(s) ==
    CASE s.heading = "north" -> [x |-> s.x, y |-> s.y + 1]
      [] s.heading = "south" -> [x |-> s.x, y |-> s.y - 1]
      [] s.heading = "east"  -> [x |-> s.x + 1, y |-> s.y]
      [] s.heading = "west"  -> [x |-> s.x - 1, y |-> s.y]

moveForward(s) ==
    CASE s.heading = "north" -> [x |-> s.x, y |-> Min(GRID_SIZE - 1, s.y + 1)]
      [] s.heading = "south" -> [x |-> s.x, y |-> Max(0, s.y - 1)]
      [] s.heading = "east"  -> [x |-> Min(GRID_SIZE - 1, s.x + 1), y |-> s.y]
      [] s.heading = "west"  -> [x |-> Max(0, s.x - 1), y |-> s.y]

seedNote == <<"C", "a", "l", "i", "b", "r", "a", "t", "e", "d", " ", "a", "n", "d", " ", "r", "e", "a", "d", "y", ".">>

baseState ==
    [x         |-> GRID_SIZE \div 2,
     y         |-> GRID_SIZE \div 2,
     heading   |-> "north",
     energy    |-> 80,
     inventory |-> <<>>,
     notes     |-> <<seedNote>>]

\* clampEnergy without Math.max(0, ...).
clampEnergy_NoFloor(value) == Min(100, value)

clampEnergy(value) == Max(0, Min(100, value))

\* String.prototype.toUpperCase on a heading.
headingUpper(h) ==
    CASE h = "north" -> "NORTH"
      [] h = "east"  -> "EAST"
      [] h = "south" -> "SOUTH"
      [] h = "west"  -> "WEST"

formatState(state) ==
    "Position (" \o ToString(state.x) \o ", " \o ToString(state.y)
        \o ") - Heading " \o headingUpper(state.heading)
        \o " - Energy " \o ToString(state.energy) \o "%"

\* includes with a loop that stops one element early.
arrayIncludes_SkipsLast(array, item) == \E i \in 1..(Len(array) - 1) : array[i] = item

\* Array.prototype.includes
arrayIncludes(array, item) == \E i \in 1..Len(array) : array[i] = item

\* filter with the test inverted: (entry) => entry === item.
RECURSIVE filterOut_KeepsItem(_, _)
filterOut_KeepsItem(array, item) ==
    IF array = <<>> THEN <<>>
    ELSE IF Head(array) = item
         THEN <<Head(array)>> \o filterOut_KeepsItem(Tail(array), item)
         ELSE filterOut_KeepsItem(Tail(array), item)

\* Array.prototype.filter((entry) => entry !== item)
RECURSIVE filterOut(_, _)
filterOut(array, item) ==
    IF array = <<>> THEN <<>>
    ELSE IF Head(array) # item
         THEN <<Head(array)>> \o filterOut(Tail(array), item)
         ELSE filterOut(Tail(array), item)

(* ----------------------- the literals matched ------------------------- *)

helpWords == {<<"h", "e", "l", "p">>,
              <<"c", "o", "m", "m", "a", "n", "d", "s">>,
              <<"m", "a", "n", "u", "a", "l">>}

statusWords == {<<"s", "t", "a", "t", "u", "s">>,
                <<"r", "e", "p", "o", "r", "t">>,
                <<"s", "t", "a", "t", "e">>}

resetWords == {<<"r", "e", "s", "e", "t">>,
               <<"r", "e", "b", "o", "o", "t">>,
               <<"i", "n", "i", "t">>}

restWords == {<<"r", "e", "s", "t">>,
              <<"r", "e", "c", "o", "v", "e", "r">>,
              <<"r", "e", "c", "h", "a", "r", "g", "e">>}

scanWords == {<<"s", "c", "a", "n">>,
              <<"s", "c", "a", "n", " ", "a", "r", "e", "a">>,
              <<"s", "c", "a", "n", " ", "p", "e", "r", "i", "m", "e", "t", "e", "r">>,
              <<"a", "n", "a", "l", "y", "z", "e">>}

kwNote == <<"n", "o", "t", "e">>

kwCollect == <<"c", "o", "l", "l", "e", "c", "t">>

kwDrop == <<"d", "r", "o", "p">>

kwEnergy == <<"e", "n", "e", "r", "g", "y">>

kwPath == <<"p", "a", "t", "h">>

kwTurn == <<"t", "u", "r", "n">>

kwMove == <<"m", "o", "v", "e">>

kwForward == <<"f", "o", "r", "w", "a", "r", "d">>

kwLeft == <<"l", "e", "f", "t">>

kwRight == <<"r", "i", "g", "h", "t">>

kwAround == <<"a", "r", "o", "u", "n", "d">>

kwNorth == <<"n", "o", "r", "t", "h">>

kwSouth == <<"s", "o", "u", "t", "h">>

kwEast == <<"e", "a", "s", "t">>

kwWest == <<"w", "e", "s", "t">>

\* "verb ": the prefix the rules test with startsWith.
withSpace(verb) == verb \o <<" ">>

(* ------------------------- interpretCommand --------------------------- *)

\* A note rule that stores the message in place of the notes held.
noteRule_ReplacesNotes(input, current) ==
    LET message == trim(slice(input, indexOf(toLowerCase(input), kwNote) + 4))
    IN  IF message = <<>>
        THEN [response  |-> "Please provide note content after the command (e.g. \"note secure perimeter\").",
              nextState |-> current]
        ELSE [response  |-> "Noted: " \o text(message),
              nextState |-> [current EXCEPT !.notes = <<message>>]]

noteRule(input, current) ==
    LET message == trim(slice(input, indexOf(toLowerCase(input), kwNote) + 4))
    IN  IF message = <<>>
        THEN [response  |-> "Please provide note content after the command (e.g. \"note secure perimeter\").",
              nextState |-> current]
        ELSE [response  |-> "Noted: " \o text(message),
              nextState |-> [current EXCEPT !.notes = Append(current.notes, message)]]

\* A collect rule without the test for an item already held.
collectRule_AlwaysAppends(input, current) ==
    LET item == trim(slice(input, indexOf(toLowerCase(input), kwCollect) + 7))
    IN  IF item = <<>>
        THEN [response  |-> "Specify what to collect (e.g. \"collect sample\").",
              nextState |-> current]
        ELSE [response  |-> "Collected \"" \o text(item) \o "\" and stored in inventory.",
              nextState |-> [current EXCEPT !.inventory = Append(current.inventory, item)]]

collectRule(input, current) ==
    LET item == trim(slice(input, indexOf(toLowerCase(input), kwCollect) + 7))
    IN  IF item = <<>>
        THEN [response  |-> "Specify what to collect (e.g. \"collect sample\").",
              nextState |-> current]
        ELSE IF arrayIncludes(current.inventory, item)
        THEN [response  |-> "Item \"" \o text(item) \o "\" is already secured.",
              nextState |-> current]
        ELSE [response  |-> "Collected \"" \o text(item) \o "\" and stored in inventory.",
              nextState |-> [current EXCEPT !.inventory = Append(current.inventory, item)]]

dropRule(input, current) ==
    LET item == trim(slice(input, indexOf(toLowerCase(input), kwDrop) + 4))
    IN  IF item = <<>>
        THEN [response  |-> "Specify what to drop (e.g. \"drop sample\").",
              nextState |-> current]
        ELSE IF ~arrayIncludes(current.inventory, item)
        THEN [response  |-> "Inventory does not contain \"" \o text(item) \o "\".",
              nextState |-> current]
        ELSE [response  |-> "Released \"" \o text(item) \o "\" from inventory.",
              nextState |-> [current EXCEPT !.inventory = filterOut(current.inventory, item)]]

energyRule(normalized, current) ==
    LET value == parseInt(trim(removeFirst(normalized, kwEnergy)))
    IN  IF value.isNaN
        THEN [response  |-> "Provide an energy value between 0 and 100 (e.g. \"energy 65\").",
              nextState |-> current]
        ELSE [response  |-> "Energy recalibrated to " \o ToString(clampEnergy(value.value)) \o "%.",
              nextState |-> [current EXCEPT !.energy = clampEnergy(value.value)]]

pathRule(normalized, current) ==
    LET coords == split(trim(removeFirst(normalized, kwPath)))
    IN  IF Len(coords) # 2
        THEN [response  |-> "Use \"path x,y\" to teleport the agent within the grid.",
              nextState |-> current]
        ELSE LET targetX == parseInt(trim(coords[1]))
                 targetY == parseInt(trim(coords[2]))
             IN  IF \/ targetX.isNaN
                    \/ targetY.isNaN
                    \/ targetX.value < 0
                    \/ targetY.value < 0
                    \/ targetX.value >= GRID_SIZE
                    \/ targetY.value >= GRID_SIZE
                 THEN [response  |-> "Coordinates out of bounds. The grid is "
                                        \o ToString(GRID_SIZE) \o "x" \o ToString(GRID_SIZE)
                                        \o ", indexed from (0,0).",
                       nextState |-> current]
                 ELSE [response  |-> "Navigated directly to (" \o ToString(targetX.value)
                                        \o ", " \o ToString(targetY.value) \o ").",
                       nextState |-> [current EXCEPT !.x = targetX.value,
                                                     !.y = targetY.value,
                                                     !.energy = clampEnergy(current.energy - 10)]]

\* A reset that resets the fields of the current state but keeps its notes.
resetRule_KeepsNotes(current) ==
    [response  |-> "Agent reset to baseline configuration.",
     nextState |-> [baseState EXCEPT !.notes = current.notes]]

resetRule(current) ==
    [response  |-> "Agent reset to baseline configuration.",
     nextState |-> baseState]

\* A rest rule that adds the 15 without clampEnergy.
restRule_Unclamped(current) ==
    LET restored == current.energy + 15
    IN  [response  |-> "Resting... Energy now at " \o ToString(restored) \o "%.",
         nextState |-> [current EXCEPT !.energy = restored]]

restRule(current) ==
    LET restored == clampEnergy(current.energy + 15)
    IN  [response  |-> "Resting... Energy now at " \o ToString(restored) \o "%.",
         nextState |-> [current EXCEPT !.energy = restored]]

scanRule(current) ==
    LET report == "Scan complete. No threats detected. Notes: "
                    \o (IF Len(current.notes) # 0
                        THEN text(current.notes[Len(current.notes)])
                        ELSE "No mission notes.")
    IN  [response  |-> report,
         nextState |-> [current EXCEPT !.energy = clampEnergy(current.energy - 5)]]

turnRule(normalized, current) ==
    IF includes(normalized, kwLeft)
    THEN [response  |-> "Turned left. Heading "
                           \o headingUpper(nextHeading(current.heading, "left")) \o ".",
          nextState |-> [current EXCEPT !.heading = nextHeading(current.heading, "left"),
                                        !.energy = clampEnergy(current.energy - 2)]]
    ELSE IF includes(normalized, kwRight)
    THEN [response  |-> "Turned right. Heading "
                           \o headingUpper(nextHeading(current.heading, "right")) \o ".",
          nextState |-> [current EXCEPT !.heading = nextHeading(current.heading, "right"),
                                        !.energy = clampEnergy(current.energy - 2)]]
    ELSE IF includes(normalized, kwAround)
    THEN LET halfway == nextHeading(current.heading, "right")
         IN  [response  |-> "Executed 180 degree pivot. Heading "
                                \o headingUpper(nextHeading(halfway, "right")) \o ".",
              nextState |-> [current EXCEPT
                                !.heading = nextHeading(nextHeading(current.heading, "right"), "right"),
                                !.energy = clampEnergy(current.energy - 3)]]
    ELSE [response  |-> "Specify turn direction: left, right, or around.",
          nextState |-> current]

\* A directional branch that, like the plain one, returns the state as it is
\* when the step is blocked by the edge.
advanceToward_BlockedIsNoOp(current, heading) ==
    LET nextPosition == moveForward([current EXCEPT !.heading = heading])
    IN  IF nextPosition.x = current.x /\ nextPosition.y = current.y
        THEN [response  |-> "Boundary reached. Unable to move further forward.",
              nextState |-> current]
        ELSE [response  |-> "Advanced " \o heading \o " to (" \o ToString(nextPosition.x)
                               \o ", " \o ToString(nextPosition.y) \o ").",
              nextState |-> [current EXCEPT !.x = nextPosition.x,
                                            !.y = nextPosition.y,
                                            !.heading = heading,
                                            !.energy = clampEnergy(current.energy - 6)]]

\* One of the four branches of the move rule that name a cardinal word.
advanceToward(current, heading) ==
    LET nextPosition == moveForward([current EXCEPT !.heading = heading])
    IN  [response  |-> "Advanced " \o heading \o " to (" \o ToString(nextPosition.x)
                           \o ", " \o ToString(nextPosition.y) \o ").",
         nextState |-> [current EXCEPT !.x = nextPosition.x,
                                       !.y = nextPosition.y,
                                       !.heading = heading,
                                       !.energy = clampEnergy(current.energy - 6)]]

\* A plain move that is refused when the energy does not cover its cost.
advanceForward_NeedsEnergy(current) ==
    LET nextCoords == moveForward(current)
    IN  IF (nextCoords.x = current.x /\ nextCoords.y = current.y) \/ current.energy < 6
        THEN [response  |-> "Boundary reached. Unable to move further forward.",
              nextState |-> current]
        ELSE [response  |-> "Advanced forward to (" \o ToString(nextCoords.x)
                               \o ", " \o ToString(nextCoords.y) \o ").",
              nextState |-> [current EXCEPT !.x = nextCoords.x,
                                            !.y = nextCoords.y,
                                            !.energy = clampEnergy(current.energy - 6)]]

\* A plain move without the test for a blocked step: the energy is charged
\* at the edge too.
advanceForward_AlwaysCharges(current) ==
    LET nextCoords == moveForward(current)
    IN  [response  |-> "Advanced forward to (" \o ToString(nextCoords.x)
                           \o ", " \o ToString(nextCoords.y) \o ").",
         nextState |-> [current EXCEPT !.x = nextCoords.x,
                                       !.y = nextCoords.y,
                                       !.energy = clampEnergy(current.energy - 6)]]

\* The last branch of the move rule: one step in the current heading.
advanceForward(current) ==
    LET nextCoords == moveForward(current)
    IN  IF nextCoords.x = current.x /\ nextCoords.y = current.y
        THEN [response  |-> "Boundary reached. Unable to move further forward.",
              nextState |-> current]
        ELSE [response  |-> "Advanced forward to (" \o ToString(nextCoords.x)
                               \o ", " \o ToString(nextCoords.y) \o ").",
              nextState |-> [current EXCEPT !.x = nextCoords.x,
                                            !.y = nextCoords.y,
                                            !.energy = clampEnergy(current.energy - 6)]]

\* A move rule that tests the cardinal words in the order west, east, south,
\* north.
moveRule_ReversedOrder(normalized, current) ==
    IF includes(normalized, kwWest) THEN advanceToward(current, "west")
    ELSE IF includes(normalized, kwEast) THEN advanceToward(current, "east")
    ELSE IF includes(normalized, kwSouth) THEN advanceToward(current, "south")
    ELSE IF includes(normalized, kwNorth) THEN advanceToward(current, "north")
    ELSE advanceForward(current)

moveRule(normalized, current) ==
    IF includes(normalized, kwNorth) THEN advanceToward(current, "north")
    ELSE IF includes(normalized, kwSouth) THEN advanceToward(current, "south")
    ELSE IF includes(normalized, kwEast) THEN advanceToward(current, "east")
    ELSE IF includes(normalized, kwWest) THEN advanceToward(current, "west")
    ELSE advanceForward(current)

fallback(current) ==
    [response  |-> "Command not recognized. Request \"help\" to review supported directives or provide a more specific instruction.",
     nextState |-> current]

interpretCommand(input, current) ==
    LET normalized == toLowerCase(trim(input))
    IN  IF normalized = <<>>
        THEN [response  |-> "Awaiting directives. Try something like \"move north\" or \"scan perimeter\".",
              nextState |-> current]
        ELSE IF normalized \in helpWords
        THEN [response  |-> "Available directives: move <north|south|east|west|forward>, turn <left|right|around>, scan, rest, status, reset, collect <item>, drop <item>, note <text>, energy <value>, path <x,y>. All commands are case-insensitive.",
              nextState |-> current]
        ELSE IF normalized \in statusWords
        THEN [response |-> formatState(current), nextState |-> current]
        ELSE IF startsWith(normalized, withSpace(kwNote)) THEN noteRule(input, current)
        ELSE IF startsWith(normalized, withSpace(kwCollect)) THEN collectRule(input, current)
        ELSE IF startsWith(normalized, withSpace(kwDrop)) THEN dropRule(input, current)
        ELSE IF startsWith(normalized, withSpace(kwEnergy)) THEN energyRule(normalized, current)
        ELSE IF startsWith(normalized, withSpace(kwPath)) THEN pathRule(normalized, current)
        ELSE IF normalized \in resetWords THEN resetRule(current)
        ELSE IF normalized \in restWords THEN restRule(current)
        ELSE IF normalized \in scanWords THEN scanRule(current)
        ELSE IF startsWith(normalized, withSpace(kwTurn)) THEN turnRule(normalized, current)
        ELSE IF startsWith(normalized, kwMove) \/ includes(normalized, kwForward)
        THEN moveRule(normalized, current)
        ELSE fallback(current)

(* --------------------------- the inputs ------------------------------- *)

\* The command texts the behaviours submit: each rule's accepted forms, its
\* verb alone and with trailing white space, its malformed arguments, mixed
\* case, and texts that match several rules.
Inputs == {
    <<>>,
    <<" ", " ">>,
    <<"h", "e", "l", "p">>,
    <<"s", "t", "a", "t", "u", "s">>,
    <<"n", "o", "t", "e", " ", "a", "l", "p", "h", "a">>,
    <<"N", "O", "T", "E", " ", "B", "e", "t", "a">>,
    <<"n", "o", "t", "e">>,
    <<"n", "o", "t", "e", " ">>,
    <<"c", "o", "l", "l", "e", "c", "t", " ", "a">>,
    <<"c", "o", "l", "l", "e", "c", "t", " ", "b">>,
    <<" ", "C", "o", "l", "l", "e", "c", "t", " ", "a", " ">>,
    <<"c", "o", "l", "l", "e", "c", "t">>,
    <<"c", "o", "l", "l", "e", "c", "t", " ", "\t">>,
    <<"d", "r", "o", "p", " ", "a">>,
    <<"d", "r", "o", "p", " ", "b">>,
    <<"d", "r", "o", "p">>,
    <<"d", "r", "o", "p", " ">>,
    <<"e", "n", "e", "r", "g", "y", " ", "1", "5", "0">>,
    <<"e", "n", "e", "r", "g", "y", " ", "-", "5">>,
    <<"e", "n", "e", "r", "g", "y", " ", "5", "0">>,
    <<"e", "n", "e", "r", "g", "y", " ", "3", "x">>,
    <<"e", "n", "e", "r", "g", "y", " ", "a", "b", "c">>,
    <<"e", "n", "e", "r", "g", "y">>,
    <<"e", "n", "e", "r", "g", "y", " ">>,
    <<"p", "a", "t", "h", " ", "0", ",", "0">>,
    <<"p", "a", "t", "h", " ", "6", ",", "6">>,
    <<"p", "a", "t", "h", " ", "3", ",", "6">>,
    <<"p", "a", "t", "h", " ", "9", ",", "9">>,
    <<"p", "a", "t", "h", " ", "3">>,
    <<"p", "a", "t", "h">>,
    <<"p", "a", "t", "h", " ">>,
    <<"p", "a", "t", "h", " ", "a", ",", "b">>,
    <<"p", "a", "t", "h", " ", "1", ",", "2", ",", "3">>,
    <<"p", "a", "t", "h", " ", "-", "1", ",", "2">>,
    <<"p", "a", "t", "h", " ", "2", "x", ",", " ", "5">>,
    <<"r", "e", "s", "e", "t">>,
    <<"r", "e", "b", "o", "o", "t">>,
    <<"i", "n", "i", "t">>,
    <<"r", "e", "s", "t">>,
    <<"s", "c", "a", "n">>,
    <<"t", "u", "r", "n", " ", "l", "e", "f", "t">>,
    <<"t", "u", "r", "n", " ", "r", "i", "g", "h", "t">>,
    <<"t", "u", "r", "n", " ", "a", "r", "o", "u", "n", "d">>,
    <<"t", "u", "r", "n", " ", "u", "p">>,
    <<"t", "u", "r", "n">>,
    <<"t", "u", "r", "n", " ", "l", "e", "f", "t", " ", "r", "i", "g", "h", "t">>,
    <<"t", "u", "r", "n", " ", "a", "r", "o", "u", "n", "d", " ", "r", "i", "g", "h", "t">>,
    <<"t", "u", "r", "n", " ", "n", "o", "r", "t", "h", " ", "f", "o", "r", "w", "a", "r", "d">>,
    <<"m", "o", "v", "e", " ", "n", "o", "r", "t", "h">>,
    <<"m", "o", "v", "e", " ", "s", "o", "u", "t", "h">>,
    <<"m", "o", "v", "e", " ", "e", "a", "s", "t">>,
    <<"m", "o", "v", "e", " ", "w", "e", "s", "t">>,
    <<"m", "o", "v", "e">>,
    <<"f", "o", "r", "w", "a", "r", "d">>,
    <<"m", "o", "v", "e", " ", "f", "o", "r", "w", "a", "r", "d">>,
    <<"g", "o", " ", "f", "o", "r", "w", "a", "r", "d">>,
    <<"m", "o", "v", "e", " ", "s", "o", "u", "t", "h", " ", "n", "o", "r", "t", "h">>,
    <<"d", "a", "n", "c", "e">>
    }

\* The texts typed into the form in the behaviours of SpecUI.
UIInputs == {
    <<" ", " ">>,
    <<"m", "o", "v", "e", " ", "n", "o", "r", "t", "h">>,
    <<"c", "o", "l", "l", "e", "c", "t", " ", "a">>,
    <<"n", "o", "t", "e", " ", "a", "l", "p", "h", "a">>,
    <<"r", "e", "s", "e", "t">>
    }

(* ---------------------------- the state ------------------------------- *)

VARIABLES
    command,     \* useState(""): the text of the input field
    agentState,  \* useState(baseState)
    history,     \* useState<CommandLog[]>
    closure,     \* the command and agentState the last render gave handleSubmit
    event,       \* the handler that ran last
    input,       \* the last call of interpretCommand: its input,
    current,     \*   its current,
    result,      \*   and what it returned
    calls        \* the number of calls of interpretCommand so far

vars == <<command, agentState, history, closure, event, input, current, result, calls>>

ui == <<command, agentState, history, closure, event>>

\* createId() returns a value it never returned before: the entries are
\* numbered.  The timestamp of an entry is read by the view alone and is
\* left out.
bootEntry ==
    [id            |-> 0,
     userCommand   |-> <<"s", "y", "s", "t", "e", "m", " ", "b", "o", "o", "t">>,
     agentResponse |-> "Agent online. Ready for directives.",
     stateAfter    |-> baseState]

Init ==
    /\ command = <<>>
    /\ agentState = baseState
    /\ history = <<bootEntry>>
    /\ closure = [command |-> <<>>, agentState |-> baseState]
    /\ event = "mount"
    /\ input = <<>>
    /\ current = baseState
    /\ result = [response |-> "", nextState |-> baseState]
    /\ calls = 0

(* --------------------- the interpreter, iterated ---------------------- *)

\* interpretCommand on the state its last call returned.
Interpret(i) ==
    /\ calls < MaxCalls
    /\ input' = i
    /\ current' = result.nextState
    /\ result' = interpretCommand(i, result.nextState)
    /\ calls' = calls + 1
    /\ UNCHANGED ui

Next == \E i \in Inputs : Interpret(i)

Spec == Init /\ [][Next]_vars

(* ------------------------- the component ------------------------------ *)

\* onChange of the input field: setCommand(event.target.value).
OnChange(value) ==
    /\ command' = value
    /\ event' = "onChange"
    /\ UNCHANGED <<agentState, history, closure, input, current, result, calls>>

\* React renders CommandAgent again: handleSubmit is created anew and closes
\* over the command and agentState of this render.  React queues the state
\* updates of a handler and renders later, so any number of events may be
\* handled between two renders; command, agentState and history hold the
\* queued values, closure what the handlers of the last render see.
Render ==
    /\ closure # [command |-> command, agentState |-> agentState]
    /\ closure' = [command |-> command, agentState |-> agentState]
    /\ event' = "render"
    /\ UNCHANGED <<command, agentState, history, input, current, result, calls>>

\* An updater that returns the log as it was.
appendEntry_DropsEntry(logs, entry) == logs

\* An updater that puts the new entry first: [entry, ...logs].
appendEntry_Prepends(logs, entry) == <<entry>> \o logs

\* The updater given to setHistory: (logs) => [...logs, entry].
appendEntry(logs, entry) == Append(logs, entry)

\* onSubmit of the form.  setHistory is given an updater and appends to the
\* latest log; setAgentState and setCommand are given values.
handleSubmit ==
    LET currentCommand == closure.command
    IN  IF trim(currentCommand) = <<>>
        THEN /\ command' = <<>>
             /\ event' = "onSubmit"
             /\ UNCHANGED <<agentState, history, closure, input, current, result, calls>>
        ELSE LET r     == interpretCommand(currentCommand, closure.agentState)
                 entry == [id            |-> calls + 1,
                           userCommand   |-> currentCommand,
                           agentResponse |-> r.response,
                           stateAfter    |-> r.nextState]
             IN  /\ Len(history) < MaxLog
                 /\ history' = appendEntry(history, entry)
                 /\ agentState' = r.nextState
                 /\ command' = <<>>
                 /\ event' = "onSubmit"
                 /\ input' = currentCommand
                 /\ current' = closure.agentState
                 /\ result' = r
                 /\ calls' = calls + 1
                 /\ UNCHANGED closure

NextUI ==
    \/ \E value \in UIInputs : OnChange(value)
    \/ Render
    \/ handleSubmit

SpecUI == Init /\ [][NextUI]_vars

(* ------------------- what the properties speak of --------------------- *)

\* The text of the last call as the rules see it.
normalizedInput == toLowerCase(trim(input))

\* An interpretCommand call has been made.
called == calls > 0

ToSet(seq) == {seq[k] : k \in 1..Len(seq)}

\* The verbs whose rule is tested before the turn and move rules.
argumentVerbs == {kwNote, kwCollect, kwDrop, kwEnergy, kwPath}

\* The text is a move command: it starts with "move" or holds "forward", and
\* is not the text of a note, collect, drop, energy, path or turn command.
IsMoveCommand(n) ==
    /\ startsWith(n, kwMove) \/ includes(n, kwForward)
    /\ \A verb \in argumentVerbs \cup {kwTurn} : ~startsWith(n, verb \o <<" ">>)

\* The cardinal word of a move command, "none" when it holds none.
CardinalOf(n) ==
    IF includes(n, kwNorth) THEN "north"
    ELSE IF includes(n, kwSouth) THEN "south"
    ELSE IF includes(n, kwEast) THEN "east"
    ELSE IF includes(n, kwWest) THEN "west"
    ELSE "none"

\* The agent in state s touches the edge of the grid that lies in direction d.
AtEdge(s, d) ==
    \/ d = "north" /\ s.y = 6
    \/ d = "south" /\ s.y = 0
    \/ d = "east" /\ s.x = 6
    \/ d = "west" /\ s.x = 0

\* The cell next to that of s in direction d.
Neighbour(s, d) ==
    [x |-> s.x + (IF d = "east" THEN 1 ELSE IF d = "west" THEN -1 ELSE 0),
     y |-> s.y + (IF d = "north" THEN 1 ELSE IF d = "south" THEN -1 ELSE 0)]

Position(s) == [x |-> s.x, y |-> s.y]

(* ------------------------------ C1 ------------------------------------ *)

\* C1: in every state reached from the baseline by any sequence of commands
\* the energy is an integer between 0 and 100: of the state a call is given
\* and of the state it returns.
C1_EnergyInRange ==
    /\ current.energy \in 0..100
    /\ result.nextState.energy \in 0..100

\* A scan at energy 0: the deduction saturates at the lower bound.
C1_Witness ==
    /\ called
    /\ normalizedInput \in scanWords
    /\ current.energy = 0
    /\ result.nextState.energy = 0

(* ------------------------------ C2 ------------------------------------ *)

\* C2: in every state reached from the baseline the position is on the
\* grid, 0 <= x <= 6 and 0 <= y <= 6: a move at an edge saturates.
C2_PositionOnGrid ==
    /\ current.x \in 0..6 /\ current.y \in 0..6
    /\ result.nextState.x \in 0..6 /\ result.nextState.y \in 0..6

\* "move north" on the northern edge: the agent stays on row 6.
C2_Witness ==
    /\ called
    /\ IsMoveCommand(normalizedInput)
    /\ CardinalOf(normalizedInput) = "north"
    /\ current.y = 6
    /\ result.nextState.y = 6

(* ------------------------------ C3 ------------------------------------ *)

\* C3: reset, reboot and init return exactly the baseline state, position
\* (3,3), heading north, energy 80, no inventory and the seed note alone,
\* whatever the state they are given.
C3_ResetYieldsBaseline ==
    (called /\ normalizedInput \in resetWords) =>
        result.nextState = [x |-> 3, y |-> 3, heading |-> "north", energy |-> 80,
                            inventory |-> <<>>, notes |-> <<seedNote>>]

\* A reset of a state that holds a second note and an item.
C3_Witness ==
    /\ called
    /\ normalizedInput \in resetWords
    /\ Len(current.notes) > 1
    /\ current.inventory # <<>>
    /\ result.nextState.notes = <<seedNote>>
    /\ result.nextState.inventory = <<>>

(* ------------------------------ C4 ------------------------------------ *)

\* The last call was "collect <item>" with a non-empty item.
IsCollect == called /\ startsWith(normalizedInput, kwCollect \o <<" ">>)

\* The item that call named.
CollectItem == trim(slice(trim(input), Len(kwCollect)))

\* The inventory after "drop <item>" is applied to the state the collect returned.
AfterDrop ==
    interpretCommand(kwDrop \o <<" ">> \o CollectItem, result.nextState).nextState.inventory

\* C4 as stated: after "collect <item>" and then "drop <item>" the inventory
\* is, as a set, the inventory held before the collect.
C4_Original_RoundTrip ==
    IsCollect => ToSet(AfterDrop) = ToSet(current.inventory)

\* C4 amended: after "collect <item>" and then "drop <item>", for an item the
\* inventory did not hold before the collect, the inventory is, as a set,
\* the inventory held before the collect.
C4_RoundTripOfNewItem ==
    (IsCollect /\ CollectItem \notin ToSet(current.inventory)) =>
        ToSet(AfterDrop) = ToSet(current.inventory)

\* A collect of a new item into an inventory that already holds another.
C4_Witness ==
    /\ IsCollect
    /\ current.inventory # <<>>
    /\ CollectItem \notin ToSet(current.inventory)
    /\ CollectItem \in ToSet(result.nextState.inventory)
    /\ AfterDrop = current.inventory

(* ------------------------------ C5 ------------------------------------ *)

\* The instructional prompt of each verb that needs an argument.
PromptOf(verb) ==
    CASE verb = kwNote    -> "Please provide note content after the command (e.g. \"note secure perimeter\")."
      [] verb = kwCollect -> "Specify what to collect (e.g. \"collect sample\")."
      [] verb = kwDrop    -> "Specify what to drop (e.g. \"drop sample\")."
      [] verb = kwEnergy  -> "Provide an energy value between 0 and 100 (e.g. \"energy 65\")."
      [] verb = kwPath    -> "Use \"path x,y\" to teleport the agent within the grid."

\* C5: note, collect, drop, energy or path submitted with no argument (alone
\* or followed by white space only) is answered with the prompt of that verb
\* and leaves the state unchanged.
C5_VerbAlonePrompts ==
    \A verb \in argumentVerbs :
        (called /\ normalizedInput = verb) =>
            /\ result.response = PromptOf(verb)
            /\ result.nextState = current

(* ------------------------------ C6 ------------------------------------ *)

\* C6: every entry handleSubmit appended holds the state interpretCommand
\* returns for its userCommand on the stateAfter of the entry before it.
C6_EntryFollowsPrevious ==
    \A k \in 2..Len(history) :
        history[k].stateAfter =
            interpretCommand(history[k].userCommand, history[k - 1].stateAfter).nextState

(* ------------------------------ C7 ------------------------------------ *)

\* The step is a run of handleSubmit on a text that is not blank.
SubmitsText == event' = "onSubmit" /\ trim(closure.command) # <<>>

C7_BootFirst ==
    /\ Len(history) = 1
    /\ history[1].userCommand = bootEntry.userCommand
    /\ history[1].stateAfter = baseState

C7_Step ==
    /\ Len(history') >= Len(history)
    /\ \A k \in 1..Len(history) : history'[k] = history[k]
    /\ IF SubmitsText
       THEN /\ Len(history') = Len(history) + 1
            /\ history'[Len(history')].userCommand = closure.command
       ELSE /\ history' = history
            /\ event' = "onSubmit" => agentState' = agentState

\* C7: the transcript starts as the one "system boot" entry; a submission of
\* a text that is not blank appends exactly one entry, for that text, and
\* leaves the entries before it as they were, also when the command is a
\* reset; a blank submission changes neither the transcript nor the agent
\* state; nothing else changes the transcript.
C7_TranscriptAppendOnly == C7_BootFirst /\ [][C7_Step]_vars

\* A reset was logged after a command that changed the state, whose entry
\* is still in the transcript.
C7_Witness ==
    /\ Len(history) >= 3
    /\ history[2].stateAfter # baseState
    /\ toLowerCase(trim(history[3].userCommand)) \in resetWords
    /\ history[3].stateAfter = baseState

(* ------------------------------ C8 ------------------------------------ *)

\* C8: a move command that holds a cardinal word sets the heading to that
\* direction and deducts 6 energy (not below 0); the agent moves one cell in
\* that direction, or stays where it is when it touches that edge.
C8_DirectionalMove ==
    LET d == CardinalOf(normalizedInput)
    IN  (called /\ IsMoveCommand(normalizedInput) /\ d # "none") =>
            /\ result.nextState.heading = d
            /\ result.nextState.energy = Max(0, current.energy - 6)
            /\ Position(result.nextState) =
                   IF AtEdge(current, d) THEN Position(current) ELSE Neighbour(current, d)
            /\ result.nextState.inventory = current.inventory
            /\ result.nextState.notes = current.notes

\* "move north" on the northern edge by an agent that faced elsewhere: the
\* position stays, the heading turns north and the energy is charged.
C8_Witness ==
    /\ called
    /\ IsMoveCommand(normalizedInput)
    /\ CardinalOf(normalizedInput) = "north"
    /\ current.y = 6
    /\ current.heading # "north"
    /\ Position(result.nextState) = Position(current)
    /\ result.nextState.heading = "north"
    /\ result.nextState.energy = current.energy - 6

(* ------------------------------ C9 ------------------------------------ *)

\* C9: a move command with no cardinal word, given to an agent that faces an
\* edge it touches, answers "Boundary reached" and returns the state as it
\* was; anywhere else the agent moves one cell in its heading, keeps the
\* heading and loses 6 energy (not below 0).
C9_PlainMove ==
    (called /\ IsMoveCommand(normalizedInput) /\ CardinalOf(normalizedInput) = "none") =>
        IF AtEdge(current, current.heading)
        THEN /\ result.response = "Boundary reached. Unable to move further forward."
             /\ result.nextState = current
        ELSE result.nextState =
                 [current EXCEPT !.x = Neighbour(current, current.heading).x,
                                 !.y = Neighbour(current, current.heading).y,
                                 !.energy = Max(0, current.energy - 6)]

\* A plain move by an agent on the northern edge that faces north.
C9_Witness ==
    /\ called
    /\ IsMoveCommand(normalizedInput)
    /\ CardinalOf(normalizedInput) = "none"
    /\ AtEdge(current, current.heading)
    /\ result.nextState = current

(* ------------------------------ C10 ----------------------------------- *)

TurnLeft == kwTurn \o <<" ">> \o kwLeft

TurnRight == kwTurn \o <<" ">> \o kwRight

TurnAround == kwTurn \o <<" ">> \o kwAround

\* The heading after the command is applied to state s.
HeadingAfter(text_, s) == interpretCommand(text_, s).nextState.heading

\* C10: from every heading, "turn right" after "turn left", and "turn left"
\* after "turn right", give the heading back; so does "turn around" after
\* "turn around"; "turn around" gives the heading two "turn right" give, and
\* its response names the heading of the state it returns.
C10_TurnsInvert ==
    /\ (called /\ normalizedInput = TurnLeft) =>
            HeadingAfter(TurnRight, result.nextState) = current.heading
    /\ (called /\ normalizedInput = TurnRight) =>
            HeadingAfter(TurnLeft, result.nextState) = current.heading
    /\ (called /\ normalizedInput = TurnAround) =>
            /\ HeadingAfter(TurnAround, result.nextState) = current.heading
            /\ result.nextState.heading =
                   HeadingAfter(TurnRight, interpretCommand(TurnRight, current).nextState)
            /\ result.nextState.heading # current.heading
            /\ result.response =
                   "Executed 180 degree pivot. Heading "
                       \o headingUpper(result.nextState.heading) \o "."

\* "turn left" from north: the index wraps from 0 to 3, and "turn right"
\* wraps it back.
C10_Witness ==
    /\ called
    /\ normalizedInput = TurnLeft
    /\ current.heading = "north"
    /\ result.nextState.heading = "west"
    /\ HeadingAfter(TurnRight, result.nextState) = "north"

(* ------------------------------ C11 ----------------------------------- *)

NoDuplicates(seq) == \A j, k \in 1..Len(seq) : seq[j] = seq[k] => j = k

\* C11: in every state reached from the baseline by any sequence of
\* commands the inventory holds no item name more than once.
C11_InventoryUnique ==
    /\ NoDuplicates(current.inventory)
    /\ NoDuplicates(result.nextState.inventory)

\* A collect of an item the inventory already holds, beside another item.
C11_Witness ==
    /\ IsCollect
    /\ CollectItem \in ToSet(current.inventory)
    /\ Len(current.inventory) = 2
    /\ result.nextState.inventory = current.inventory

(* ------------------------------ C12 ----------------------------------- *)

\* The last call was a "collect <item>" that stored the item.
CollectStored ==
    /\ IsCollect
    /\ CollectItem # <<>>
    /\ CollectItem \notin ToSet(current.inventory)
    /\ CollectItem \in ToSet(result.nextState.inventory)

\* The same command given again to the state the collect returned.
CollectAgain == interpretCommand(input, result.nextState)

\* C12: "collect <item>" given again after it stored the item answers
\* "already secured" and returns the state the first collect returned,
\* equal in every field.
C12_SecondCollectIsNoOp ==
    CollectStored =>
        /\ CollectAgain.response = "Item \"" \o text(CollectItem) \o "\" is already secured."
        /\ CollectAgain.nextState = result.nextState

\* A collect that stored a second item.
C12_Witness ==
    /\ CollectStored
    /\ Len(result.nextState.inventory) = 2
    /\ CollectAgain.nextState.inventory = result.nextState.inventory

(* ------------------------------ C13 ----------------------------------- *)

\* The text is a decimal integer: an optional sign and digits, nothing else.
IsIntegerText(s) ==
    LET body == IF s # <<>> /\ Head(s) \in {"+", "-"} THEN Tail(s) ELSE s
    IN  body # <<>> /\ \A k \in 1..Len(body) : isDigit(body[k])

\* The integer such a text denotes.
IntegerOf(s) ==
    IF Head(s) = "-" THEN 0 - decimalValue(Tail(s))
    ELSE IF Head(s) = "+" THEN decimalValue(Tail(s))
    ELSE decimalValue(s)

\* The last call was a "path ..." command.
IsPath == called /\ startsWith(normalizedInput, kwPath \o <<" ">>)

\* What follows "path", cut at the commas, each part without its blanks.
PathParts ==
    LET parts == split(trim(slice(normalizedInput, Len(kwPath))))
    IN  [k \in 1..Len(parts) |-> trim(parts[k])]

\* The command has two comma-separated integers, both on the grid.
PathWellFormed ==
    /\ Len(PathParts) = 2
    /\ \A k \in 1..2 : IsIntegerText(PathParts[k]) /\ IntegerOf(PathParts[k]) \in 0..6

\* C13: "path x,y" is accepted exactly when it has two comma-separated
\* integers, both in 0..6; accepted, the position becomes (x,y), the energy
\* drops by 10 (not below 0) and heading, inventory and notes stay;
\* rejected, the state stays as it was.
C13_PathAcceptedIffIntegers ==
    IsPath =>
        IF PathWellFormed
        THEN result.nextState =
                 [current EXCEPT !.x = IntegerOf(PathParts[1]),
                                 !.y = IntegerOf(PathParts[2]),
                                 !.energy = Max(0, current.energy - 10)]
        ELSE result.nextState = current

(* ------------------------------ C14 ----------------------------------- *)

\* The text is one no rule recognizes.
Unrecognized(n) ==
    /\ n # <<>>
    /\ n \notin helpWords \cup statusWords \cup resetWords \cup restWords \cup scanWords
    /\ \A verb \in argumentVerbs \cup {kwTurn} : ~startsWith(n, verb \o <<" ">>)
    /\ ~IsMoveCommand(n)

\* What follows the verb of the last call, without its blanks.
ArgumentAfter(verb) == trim(slice(trim(input), Len(verb)))

\* The last call is one of the outcomes that change nothing: a blank or
\* unrecognized text, help, status, an energy value that is not a number, a
\* drop of an item not held, a turn that names no direction.
NonMutating ==
    LET n == normalizedInput
    IN  \/ n = <<>>
        \/ Unrecognized(n)
        \/ n \in helpWords \cup statusWords
        \/ /\ startsWith(n, kwEnergy \o <<" ">>)
           /\ ~IsIntegerText(ArgumentAfter(kwEnergy))
        \/ /\ startsWith(n, kwDrop \o <<" ">>)
           /\ ArgumentAfter(kwDrop) \notin ToSet(current.inventory)
        \/ /\ startsWith(n, kwTurn \o <<" ">>)
           /\ \A word \in {kwLeft, kwRight, kwAround} : ~includes(n, word)

\* C14: every call returns a response and a next state, and each of the
\* outcomes that change nothing returns the state it was given, equal in
\* every field.
C14_NonMutatingKeepState ==
    called =>
        /\ DOMAIN result = {"response", "nextState"}
        /\ result.response # ""
        /\ NonMutating => result.nextState = current
        /\ Unrecognized(normalizedInput) => result = fallback(current)

(* ------------------------------ C15 ----------------------------------- *)

\* The move command of the last call is applied: it names a cardinal word,
\* or the agent does not face an edge it touches.
MoveApplied ==
    /\ IsMoveCommand(normalizedInput)
    /\ \/ CardinalOf(normalizedInput) # "none"
       \/ ~AtEdge(current, current.heading)

\* The last call was "energy <n>" with n an integer.
IsEnergyInteger ==
    /\ startsWith(normalizedInput, kwEnergy \o <<" ">>)
    /\ IsIntegerText(ArgumentAfter(kwEnergy))

\* C15: each command that touches the energy changes it by its amount and
\* saturates at 0 and 100: rest +15, scan -5, turn left and turn right -2,
\* turn around -3, an applied move -6, an accepted path -10, "energy n" sets
\* it to n brought into 0..100; the rest and energy responses show the
\* energy of the state returned.
C15_EnergyAmounts ==
    LET n == normalizedInput
        e == current.energy
        after == result.nextState.energy
    IN  called =>
            /\ n \in restWords =>
                   /\ after = Min(100, e + 15)
                   /\ result.response = "Resting... Energy now at " \o ToString(after) \o "%."
            /\ n \in scanWords => after = Max(0, e - 5)
            /\ n \in {TurnLeft, TurnRight} => after = Max(0, e - 2)
            /\ n = TurnAround => after = Max(0, e - 3)
            /\ MoveApplied => after = Max(0, e - 6)
            /\ (IsPath /\ PathWellFormed) => after = Max(0, e - 10)
            /\ IsEnergyInteger =>
                   /\ after = Min(100, Max(0, IntegerOf(ArgumentAfter(kwEnergy))))
                   /\ result.response = "Energy recalibrated to " \o ToString(after) \o "%."

\* A rest within 15 of the upper bound: the energy stops at 100.
C15_Witness ==
    /\ called
    /\ normalizedInput \in restWords
    /\ current.energy > 85
    /\ current.energy < 100
    /\ result.nextState.energy = 100

(* ------------------------------ C16 ----------------------------------- *)

\* The last call was a "drop <item>" of an item the inventory held.
DropsHeldItem ==
    /\ called
    /\ startsWith(normalizedInput, kwDrop \o <<" ">>)
    /\ ArgumentAfter(kwDrop) \in ToSet(current.inventory)

\* seq without its first entry equal to item.
RemoveFirst(seq, item) ==
    LET k == CHOOSE j \in 1..Len(seq) :
                 seq[j] = item /\ \A i \in 1..(j - 1) : seq[i] # item
    IN  SubSeq(seq, 1, k - 1) \o SubSeq(seq, k + 1, Len(seq))

\* C16: a "drop <item>" of an item held removes the first matching entry:
\* the inventory is one shorter, no longer holds the item, keeps the other
\* items in their order; position, heading, energy and notes stay.
C16_DropRemovesFirstMatch ==
    DropsHeldItem =>
        /\ result.nextState =
               [current EXCEPT !.inventory = RemoveFirst(current.inventory, ArgumentAfter(kwDrop))]
        /\ Len(result.nextState.inventory) = Len(current.inventory) - 1
        /\ ArgumentAfter(kwDrop) \notin ToSet(result.nextState.inventory)

\* A drop of the first of two items: the second stays.
C16_Witness ==
    /\ DropsHeldItem
    /\ Len(current.inventory) = 2
    /\ current.inventory[1] = ArgumentAfter(kwDrop)
    /\ result.nextState.inventory = <<current.inventory[2]>>

(* ------------------------------ C17 ----------------------------------- *)

\* The heading a quarter turn clockwise of h.
Clockwise(h) ==
    CASE h = "north" -> "east"
      [] h = "east"  -> "south"
      [] h = "south" -> "west"
      [] h = "west"  -> "north"

\* The last call was a "turn ..." command.
IsTurn == called /\ startsWith(normalizedInput, kwTurn \o <<" ">>)

\* What the turn rule does to heading and energy: left before right before
\* around.
TurnOutcome ==
    LET n == normalizedInput
    IN  IF includes(n, kwLeft)
        THEN [heading |-> Clockwise(Clockwise(Clockwise(current.heading))),
              energy  |-> Max(0, current.energy - 2)]
        ELSE IF includes(n, kwRight)
        THEN [heading |-> Clockwise(current.heading),
              energy  |-> Max(0, current.energy - 2)]
        ELSE IF includes(n, kwAround)
        THEN [heading |-> Clockwise(Clockwise(current.heading)),
              energy  |-> Max(0, current.energy - 3)]
        ELSE [heading |-> current.heading, energy |-> current.energy]

\* The cardinal words a text holds.
CardinalsIn(n) ==
    {d \in {"north", "south", "east", "west"} :
        includes(n, CASE d = "north" -> kwNorth
                      [] d = "south" -> kwSouth
                      [] d = "east"  -> kwEast
                      [] d = "west"  -> kwWest)}

\* The first of north, south, east, west in the set ds.
FirstCardinal(ds) ==
    IF "north" \in ds THEN "north"
    ELSE IF "south" \in ds THEN "south"
    ELSE IF "east" \in ds THEN "east"
    ELSE "west"

\* C17: a text that starts with "turn " is handled by the turn rule and
\* never moves the agent, also when it holds "forward" or a cardinal word;
\* in the turn rule left goes before right and right before around; in the
\* move rule the first of north, south, east, west that the text holds
\* decides the direction.
C17_FirstMatchWins ==
    /\ IsTurn =>
           result.nextState = [current EXCEPT !.heading = TurnOutcome.heading,
                                              !.energy = TurnOutcome.energy]
    /\ (called /\ IsMoveCommand(normalizedInput) /\ CardinalsIn(normalizedInput) # {}) =>
           result.nextState.heading = FirstCardinal(CardinalsIn(normalizedInput))

\* A move command that holds south before north: the agent heads north.
C17_Witness ==
    /\ called
    /\ IsMoveCommand(normalizedInput)
    /\ CardinalsIn(normalizedInput) = {"north", "south"}
    /\ current.heading # "north"
    /\ result.nextState.heading = "north"
    /\ result.nextState.y = current.y + 1

(* ------------------------------ C18 ----------------------------------- *)

\* C18: after every submission, blank or not, with or without a render since
\* the submission before, the agent state of the component is the stateAfter
\* of the last entry of the transcript.
C18_StateIsLastSnapshot ==
    agentState = history[Len(history)].stateAfter

\* Two submissions with no render between them: the second was interpreted
\* on the state of the last render, and the agent state is its snapshot.
C18_Witness ==
    /\ event = "onSubmit"
    /\ Len(history) = 3
    /\ closure.agentState = baseState
    /\ history[2].stateAfter # baseState
    /\ history[3].stateAfter # baseState
    /\ agentState = history[3].stateAfter

(* ------------------------------ C19 ----------------------------------- *)

IsPrefix(s, t) == Len(s) <= Len(t) /\ SubSeq(t, 1, Len(s)) = s

SeedFirst(s) == s.notes # <<>> /\ s.notes[1] = seedNote

\* C19: in every state reached from the baseline the notes are not empty
\* and start with the seed note; every command but reset, reboot and init
\* keeps the notes it was given as a prefix of the notes it returns; a scan
\* reports the last note, never "No mission notes.".
C19_NotesGrowFromSeed ==
    /\ SeedFirst(current)
    /\ SeedFirst(result.nextState)
    /\ (called /\ normalizedInput \notin resetWords) =>
           IsPrefix(current.notes, result.nextState.notes)
    /\ (called /\ normalizedInput \in scanWords) =>
           /\ result.response = "Scan complete. No threats detected. Notes: "
                                    \o text(current.notes[Len(current.notes)])
           /\ result.response # "Scan complete. No threats detected. Notes: No mission notes."

\* A scan after two notes were taken: it reports the second.
C19_Witness ==
    /\ called
    /\ normalizedInput \in scanWords
    /\ Len(current.notes) = 3
    /\ current.notes[3] # current.notes[2]
    /\ result.response = "Scan complete. No threats detected. Notes: " \o text(current.notes[3])

(* ------------------------------ C20 ----------------------------------- *)

\* The last call was a move, turn, scan or path command.
CostsEnergy ==
    LET n == normalizedInput
    IN  called /\ (IsMoveCommand(n) \/ IsTurn \/ n \in scanWords \/ IsPath)

\* What the command of the last call returns for the state it was given
\* with energy e in place of its own.
WithEnergy(e) == interpretCommand(input, [current EXCEPT !.energy = e])

\* C20: at energy 0 a move, turn, scan or path command has the effect on
\* position and heading (and the response) it has at every other energy,
\* and the energy stays 0: no command is refused for lack of energy.
C20_EnergyNeverGates ==
    (CostsEnergy /\ current.energy = 0) =>
        /\ result.nextState.energy = 0
        /\ \A e \in 0..100 :
               /\ WithEnergy(e).response = result.response
               /\ [WithEnergy(e).nextState EXCEPT !.energy = 0] = result.nextState

\* A plain move at energy 0 that moves the agent.
C20_Witness ==
    /\ CostsEnergy
    /\ current.energy = 0
    /\ CardinalOf(normalizedInput) = "none"
    /\ IsMoveCommand(normalizedInput)
    /\ Position(result.nextState) # Position(current)

====
